---- MODULE Spec2Model ----
(***************************************************************************)
(* Model of the VOX decoder of voxfile.go: Decode, readChunk and           *)
(* instancePalette, run on byte streams drawn from a bounded catalogue.    *)
(*                                                                         *)
(* A uint32 is kept at its width as a pair <<hi, lo>> of 16-bit halves     *)
(* (value = hi * 65536 + lo); arithmetic on it wraps modulo 2^32.          *)
(*                                                                         *)
(* The reader r is the pair (stream, cut) with cursor pos: the bytes the   *)
(* call can read are stream[1..cut].  r.Read(p) hands out up to len(p)     *)
(* bytes and fails only at the end of the stream; binary.Read hands out    *)
(* exactly the bytes asked for or fails.                                   *)
(***************************************************************************)
EXTENDS Integers, Sequences, FiniteSets, TLC

VARIABLES
  stream,     \* the bytes of the underlying file
  cut,        \* number of bytes of stream the current Decode call can read
  intBits,    \* width of Go's int in this build: 32 or 64, 0 while no step depended on it
  call,       \* 0 before the first Decode call, then 1, then 2
  pc,         \* position of the control flow inside Decode / readChunk
  pos,        \* cursor of the reader r
  stack,      \* activation records of readChunk, innermost last
  voxelFile,  \* the *VoxFile built by Decode
  err,        \* err of Decode: "nil" or the kind of error
  result,     \* what Decode returned: [file, err]
  hist,       \* history of the current call (observations only)
  first,      \* outcome of the first call (observations only)
  wfLen       \* length of header + well-formed chunk tree, 0 if the tree is not well formed

vars == <<stream, cut, intBits, call, pc, pos, stack, voxelFile, err, result, hist, first, wfLen>>

(***************************************************************************)
(* Bounds of the catalogue of inputs.                                      *)
(***************************************************************************)
MaxVoxels == 2
MaxSkip == 5
MaxKids == 2
MaxDepth == 3
MaxCut == 14
MaxTrail == 1

(***************************************************************************)
(* Program constants.                                                      *)
(***************************************************************************)
CurrentVersion == 150
paletteSize == 256

NIL == "nil"

Min(a, b) == IF a < b THEN a ELSE b
Max(a, b) == IF a > b THEN a ELSE b

(***************************************************************************)
(* uint32 arithmetic.                                                      *)
(***************************************************************************)
ToU32(n) == <<n \div 65536, n % 65536>>

IsZero32(a) == a[1] = 0 /\ a[2] = 0

Lt32(a, b) == a[1] < b[1] \/ (a[1] = b[1] /\ a[2] < b[2])

Add32(a, b) ==
  LET lo == a[2] + b[2]
      hi == a[1] + b[1] + (lo \div 65536)
  IN  <<hi % 65536, lo % 65536>>

Sub32(a, b) ==
  LET borrow == IF a[2] < b[2] THEN 1 ELSE 0
      lo == a[2] - b[2] + 65536 * borrow
      hi == a[1] - b[1] - borrow
  IN  <<(hi + 65536) % 65536, lo>>

\* binary.LittleEndian.Uint32 of four bytes
LittleEndian32(b) == <<b[3] + 256 * b[4], b[1] + 256 * b[2]>>

\* the four bytes binary.LittleEndian stores for a uint32
PutLittleEndian32(u) == <<u[2] % 256, u[2] \div 256, u[1] % 256, u[1] \div 256>>

(***************************************************************************)
(* Chunk identifiers, as the bytes of their ASCII text.                    *)
(***************************************************************************)
MagicVOX == <<86, 79, 88, 32>>
IdSIZE == <<83, 73, 90, 69>>
IdXYZI == <<88, 89, 90, 73>>
IdRGBA == <<82, 71, 66, 65>>
IdMAIN == <<77, 65, 73, 78>>
IdPACK == <<80, 65, 67, 75>>

(***************************************************************************)
(* The file format: a chunk is id, payload size, children size, payload,   *)
(* children.  A node of the catalogue carries the two sizes it declares,   *)
(* which a malformed file may set to anything.                             *)
(***************************************************************************)
RECURSIVE Flatten(_)
Flatten(ss) == IF ss = <<>> THEN <<>> ELSE Head(ss) \o Flatten(Tail(ss))

RECURSIVE Serialize(_)
Serialize(t) ==
  t.id \o PutLittleEndian32(t.size) \o PutLittleEndian32(t.kidsSize) \o t.payload
       \o Flatten([i \in 1..Len(t.kids) |-> Serialize(t.kids[i])])

RECURSIVE TreeLen(_)
TreeLen(t) ==
  LET lens == [i \in 1..Len(t.kids) |-> TreeLen(t.kids[i])]
      RECURSIVE Sum(_)
      Sum(i) == IF i = 0 THEN 0 ELSE lens[i] + Sum(i - 1)
  IN  12 + Len(t.payload) + Sum(Len(t.kids))

\* a node whose declared sizes are the true ones
Node(id, payload, kids) ==
  LET lens == [i \in 1..Len(kids) |-> TreeLen(kids[i])]
      RECURSIVE Sum(_)
      Sum(i) == IF i = 0 THEN 0 ELSE lens[i] + Sum(i - 1)
  IN  [id |-> id, size |-> ToU32(Len(payload)), kidsSize |-> ToU32(Sum(Len(kids))),
       payload |-> payload, kids |-> kids]

\* declared sizes match the bytes, and a recognised payload has its format's shape
RECURSIVE WellFormed(_)
WellFormed(t) ==
  /\ t.size = ToU32(Len(t.payload))
  /\ t.kidsSize = ToU32(TreeLen(t) - 12 - Len(t.payload))
  /\ (t.id = IdSIZE /\ Len(t.payload) > 0) => Len(t.payload) = 12
  /\ (t.id = IdRGBA /\ Len(t.payload) > 0) => Len(t.payload) = 4 * paletteSize
  /\ (t.id = IdXYZI /\ Len(t.payload) > 0) =>
        /\ Len(t.payload) >= 4
        /\ ToU32((Len(t.payload) - 4) \div 4) = LittleEndian32(SubSeq(t.payload, 1, 4))
        /\ (Len(t.payload) - 4) % 4 = 0
  /\ \A i \in 1..Len(t.kids) : WellFormed(t.kids[i])

VoxelBytes(k) == <<k, 10 + k, 20 + k, 200 + k>>

CustomBytes(j) == <<j - 1, 256 - j, (3 * j) % 256, 128>>

SizeLeaf == Node(IdSIZE, PutLittleEndian32(ToU32(20)) \o PutLittleEndian32(ToU32(21))
                           \o PutLittleEndian32(ToU32(20)), <<>>)

\* four-byte records laid end to end
Records(recs) == [j \in 1..(4 * Len(recs)) |-> recs[(j + 3) \div 4][((j - 1) % 4) + 1]]

XyziLeaf(n) == Node(IdXYZI, PutLittleEndian32(ToU32(n)) \o Records([k \in 1..n |-> VoxelBytes(k)]), <<>>)

RgbaLeaf == Node(IdRGBA, Records([j \in 1..paletteSize |-> CustomBytes(j)]), <<>>)

PackLeaf(n) == Node(IdPACK, [k \in 1..n |-> 160 + k], <<>>)

Leaves == {SizeLeaf, XyziLeaf(MaxVoxels), PackLeaf(MaxSkip)}

RECURSIVE SeqsUpTo(_, _)
SeqsUpTo(S, n) ==
  IF n = 0 THEN {<<>>}
  ELSE LET shorter == SeqsUpTo(S, n - 1)
       IN  shorter \cup {Append(s, x) : s \in shorter, x \in S}

KidLists == SeqsUpTo(Leaves, MaxKids)

\* d - 1 levels of containers around the children ks: depth d
RECURSIVE Nest(_, _)
Nest(d, ks) == IF d <= 2 THEN Node(IdMAIN, <<>>, ks)
               ELSE Node(IdMAIN, <<>>, <<Nest(d - 1, ks)>>)

PlainTrees == {Nest(d, ks) : d \in 2..MaxDepth, ks \in KidLists}

\* a custom palette at the root, as first, middle and last child, and nested
PaletteTrees ==
  { RgbaLeaf,
    Node(IdMAIN, <<>>, <<RgbaLeaf>>),
    Node(IdMAIN, <<>>, <<SizeLeaf, XyziLeaf(1), RgbaLeaf>>),
    Node(IdMAIN, <<>>, <<RgbaLeaf, XyziLeaf(1)>>),
    Node(IdMAIN, <<>>, <<Node(IdMAIN, <<>>, <<>>), RgbaLeaf>>),
    Node(IdMAIN, <<>>, <<[RgbaLeaf EXCEPT !.size = ToU32(4)]>>) }

\* files at the edges of the format: odd SIZE payloads, children sizes that are too
\* small or too large, payload sizes near 2^31 and 2^32, voxel counts beyond the
\* data, repeated and empty XYZI chunks
BadSizeLeaf(n) == Node(IdSIZE, [k \in 1..n |-> k], <<>>)

EdgeTrees ==
  {Node(IdMAIN, <<>>, <<BadSizeLeaf(n)>> \o tl) : n \in {0, 8, 16}, tl \in {<<>>, <<SizeLeaf>>}}
  \cup {[Node(IdMAIN, <<>>, ks) EXCEPT !.kidsSize = k] :
           ks \in {<<SizeLeaf>>, <<SizeLeaf, XyziLeaf(1)>>},
           k \in {ToU32(1), ToU32(25), ToU32(36), <<65535, 65535>>}}
  \cup {Node(IdMAIN, <<>>, <<[PackLeaf(4) EXCEPT !.size = s]>> \o tl) :
           s \in {<<32768, 0>>, <<65535, 65524>>, ToU32(9)}, tl \in {<<>>, <<SizeLeaf>>}}
  \cup {Node(IdMAIN, <<>>, <<[XyziLeaf(1) EXCEPT !.payload = PutLittleEndian32(c) \o VoxelBytes(1)]>>) :
           c \in {ToU32(3), <<1, 0>>}}
  \cup {Node(IdMAIN, <<>>, <<PackLeaf(n)>> \o tl) : n \in 3..4, tl \in {<<>>, <<SizeLeaf>>}}
  \cup {Node(IdMAIN, <<>>, <<XyziLeaf(2), XyziLeaf(0), XyziLeaf(1)>>),
        Node(IdMAIN, <<>>, <<XyziLeaf(1), [XyziLeaf(2) EXCEPT !.size = ToU32(0), !.payload = <<>>]>>)}

Trees == PlainTrees \cup PaletteTrees \cup EdgeTrees

GoodHeader == MagicVOX \o PutLittleEndian32(ToU32(CurrentVersion))

BadHeaders ==
  { <<86, 79, 88, 33>> \o PutLittleEndian32(ToU32(CurrentVersion)),
    <<118, 79, 88, 32>> \o PutLittleEndian32(ToU32(CurrentVersion)),
    MagicVOX \o PutLittleEndian32(ToU32(CurrentVersion + 1)),
    MagicVOX \o PutLittleEndian32(<<1, CurrentVersion>>) }

HeaderProbes == {Node(IdMAIN, <<>>, <<>>), Node(IdMAIN, <<>>, <<SizeLeaf, XyziLeaf(1)>>)}

Trail(n) == [k \in 1..n |-> 0]

defaultPalette ==
  <<
    <<0, 0>>, <<65535, 65535>>, <<65484, 65535>>, <<65433, 65535>>, <<65382, 65535>>, <<65331, 65535>>,
    <<65280, 65535>>, <<65535, 52479>>, <<65484, 52479>>, <<65433, 52479>>, <<65382, 52479>>, <<65331, 52479>>,
    <<65280, 52479>>, <<65535, 39423>>, <<65484, 39423>>, <<65433, 39423>>, <<65382, 39423>>, <<65331, 39423>>,
    <<65280, 39423>>, <<65535, 26367>>, <<65484, 26367>>, <<65433, 26367>>, <<65382, 26367>>, <<65331, 26367>>,
    <<65280, 26367>>, <<65535, 13311>>, <<65484, 13311>>, <<65433, 13311>>, <<65382, 13311>>, <<65331, 13311>>,
    <<65280, 13311>>, <<65535, 255>>, <<65484, 255>>, <<65433, 255>>, <<65382, 255>>, <<65331, 255>>,
    <<65280, 255>>, <<65535, 65484>>, <<65484, 65484>>, <<65433, 65484>>, <<65382, 65484>>, <<65331, 65484>>,
    <<65280, 65484>>, <<65535, 52428>>, <<65484, 52428>>, <<65433, 52428>>, <<65382, 52428>>, <<65331, 52428>>,
    <<65280, 52428>>, <<65535, 39372>>, <<65484, 39372>>, <<65433, 39372>>, <<65382, 39372>>, <<65331, 39372>>,
    <<65280, 39372>>, <<65535, 26316>>, <<65484, 26316>>, <<65433, 26316>>, <<65382, 26316>>, <<65331, 26316>>,
    <<65280, 26316>>, <<65535, 13260>>, <<65484, 13260>>, <<65433, 13260>>, <<65382, 13260>>, <<65331, 13260>>,
    <<65280, 13260>>, <<65535, 204>>, <<65484, 204>>, <<65433, 204>>, <<65382, 204>>, <<65331, 204>>,
    <<65280, 204>>, <<65535, 65433>>, <<65484, 65433>>, <<65433, 65433>>, <<65382, 65433>>, <<65331, 65433>>,
    <<65280, 65433>>, <<65535, 52377>>, <<65484, 52377>>, <<65433, 52377>>, <<65382, 52377>>, <<65331, 52377>>,
    <<65280, 52377>>, <<65535, 39321>>, <<65484, 39321>>, <<65433, 39321>>, <<65382, 39321>>, <<65331, 39321>>,
    <<65280, 39321>>, <<65535, 26265>>, <<65484, 26265>>, <<65433, 26265>>, <<65382, 26265>>, <<65331, 26265>>,
    <<65280, 26265>>, <<65535, 13209>>, <<65484, 13209>>, <<65433, 13209>>, <<65382, 13209>>, <<65331, 13209>>,
    <<65280, 13209>>, <<65535, 153>>, <<65484, 153>>, <<65433, 153>>, <<65382, 153>>, <<65331, 153>>,
    <<65280, 153>>, <<65535, 65382>>, <<65484, 65382>>, <<65433, 65382>>, <<65382, 65382>>, <<65331, 65382>>,
    <<65280, 65382>>, <<65535, 52326>>, <<65484, 52326>>, <<65433, 52326>>, <<65382, 52326>>, <<65331, 52326>>,
    <<65280, 52326>>, <<65535, 39270>>, <<65484, 39270>>, <<65433, 39270>>, <<65382, 39270>>, <<65331, 39270>>,
    <<65280, 39270>>, <<65535, 26214>>, <<65484, 26214>>, <<65433, 26214>>, <<65382, 26214>>, <<65331, 26214>>,
    <<65280, 26214>>, <<65535, 13158>>, <<65484, 13158>>, <<65433, 13158>>, <<65382, 13158>>, <<65331, 13158>>,
    <<65280, 13158>>, <<65535, 102>>, <<65484, 102>>, <<65433, 102>>, <<65382, 102>>, <<65331, 102>>,
    <<65280, 102>>, <<65535, 65331>>, <<65484, 65331>>, <<65433, 65331>>, <<65382, 65331>>, <<65331, 65331>>,
    <<65280, 65331>>, <<65535, 52275>>, <<65484, 52275>>, <<65433, 52275>>, <<65382, 52275>>, <<65331, 52275>>,
    <<65280, 52275>>, <<65535, 39219>>, <<65484, 39219>>, <<65433, 39219>>, <<65382, 39219>>, <<65331, 39219>>,
    <<65280, 39219>>, <<65535, 26163>>, <<65484, 26163>>, <<65433, 26163>>, <<65382, 26163>>, <<65331, 26163>>,
    <<65280, 26163>>, <<65535, 13107>>, <<65484, 13107>>, <<65433, 13107>>, <<65382, 13107>>, <<65331, 13107>>,
    <<65280, 13107>>, <<65535, 51>>, <<65484, 51>>, <<65433, 51>>, <<65382, 51>>, <<65331, 51>>,
    <<65280, 51>>, <<65535, 65280>>, <<65484, 65280>>, <<65433, 65280>>, <<65382, 65280>>, <<65331, 65280>>,
    <<65280, 65280>>, <<65535, 52224>>, <<65484, 52224>>, <<65433, 52224>>, <<65382, 52224>>, <<65331, 52224>>,
    <<65280, 52224>>, <<65535, 39168>>, <<65484, 39168>>, <<65433, 39168>>, <<65382, 39168>>, <<65331, 39168>>,
    <<65280, 39168>>, <<65535, 26112>>, <<65484, 26112>>, <<65433, 26112>>, <<65382, 26112>>, <<65331, 26112>>,
    <<65280, 26112>>, <<65535, 13056>>, <<65484, 13056>>, <<65433, 13056>>, <<65382, 13056>>, <<65331, 13056>>,
    <<65280, 13056>>, <<65535, 0>>, <<65484, 0>>, <<65433, 0>>, <<65382, 0>>, <<65331, 0>>,
    <<65280, 238>>, <<65280, 221>>, <<65280, 187>>, <<65280, 170>>, <<65280, 136>>, <<65280, 119>>,
    <<65280, 85>>, <<65280, 68>>, <<65280, 34>>, <<65280, 17>>, <<65280, 60928>>, <<65280, 56576>>,
    <<65280, 47872>>, <<65280, 43520>>, <<65280, 34816>>, <<65280, 30464>>, <<65280, 21760>>, <<65280, 17408>>,
    <<65280, 8704>>, <<65280, 4352>>, <<65518, 0>>, <<65501, 0>>, <<65467, 0>>, <<65450, 0>>,
    <<65416, 0>>, <<65399, 0>>, <<65365, 0>>, <<65348, 0>>, <<65314, 0>>, <<65297, 0>>,
    <<65518, 61166>>, <<65501, 56797>>, <<65467, 48059>>, <<65450, 43690>>, <<65416, 34952>>, <<65399, 30583>>,
    <<65365, 21845>>, <<65348, 17476>>, <<65314, 8738>>, <<65297, 4369>>
  >>

(***************************************************************************)
(* The reader.                                                             *)
(***************************************************************************)
\* r.Read whose end-of-stream error is dropped
Read_NoEOF(p, n) ==
  LET c == Min(n, cut - p)
  IN  [ok |-> TRUE, c |-> c, data |-> SubSeq(stream, p + 1, p + c), pos |-> p + c]

\* r.Read(buf[0:n]) at cursor p: up to n bytes, an error only when none is left
Read(p, n) ==
  LET c == Min(n, cut - p)
  IN  [ok |-> c > 0, c |-> c, data |-> SubSeq(stream, p + 1, p + c), pos |-> p + c]

\* binary.Read that hands out zeros for the bytes the stream does not have
ReadFull_Padded(p, n) ==
  [ok |-> TRUE,
   data |-> [k \in 1..n |-> IF p + k <= cut THEN stream[p + k] ELSE 0],
   pos |-> Min(p + n, cut)]

\* binary.Read of n bytes at cursor p: all n bytes or an error
ReadFull(p, n) ==
  IF cut - p >= n
  THEN [ok |-> TRUE, data |-> SubSeq(stream, p + 1, p + n), pos |-> p + n]
  ELSE [ok |-> FALSE, data |-> <<>>, pos |-> cut]

(***************************************************************************)
(* Pieces of readChunk and instancePalette.                                *)
(***************************************************************************)
\* a SIZE chunk read without the check of its size
SizeCheck_Missing(chunkSize) == TRUE

\* chunkSize != 12 fails a SIZE chunk
SizeCheck(chunkSize) == chunkSize = ToU32(12)

\* a voxel with two of its fields exchanged
MakeVoxel_Swapped(b) == [X |-> b[2], Y |-> b[1], Z |-> b[3], Index |-> b[4]]

MakeVoxel(b) == [X |-> b[1], Y |-> b[2], Z |-> b[3], Index |-> b[4]]

MakeColor(b) == [R |-> b[1], G |-> b[2], B |-> b[3], A |-> b[4]]

\* the conversion int(chunkSize) depends on the width of int
WidthMatters(chunkSize) == chunkSize[1] >= 32768

\* totalRead < int(chunkSize): an int of 32 bits turns chunkSize >= 2^31 negative
IntLess(bits, totalRead, chunkSize) ==
  IF bits = 32 /\ WidthMatters(chunkSize) THEN FALSE
  ELSE Lt32(ToU32(totalRead), chunkSize)

\* the build is one of the two widths, the same in every step that depends on it
Build(bits, chunkSize) ==
  /\ bits \in {32, 64}
  /\ intBits \in {0, bits}
  /\ intBits' = IF WidthMatters(chunkSize) THEN bits ELSE intBits

\* return chunkSize + 12, nil
ReturnValue(chunkSize) == Add32(chunkSize, ToU32(12))

\* remainingBytes = remainingBytes - childReadSize
Remaining(remainingBytes, childReadSize) == Sub32(remainingBytes, childReadSize)

UnpackColor(value) ==
  [R |-> value[2] % 256, G |-> value[2] \div 256, B |-> value[1] % 256, A |-> value[1] \div 256]

instancePalette(p) == [i \in 1..paletteSize |-> UnpackColor(p[i])]

NewVoxFile ==
  [Version |-> ToU32(0), SizeX |-> ToU32(0), SizeY |-> ToU32(0), SizeZ |-> ToU32(0),
   Voxels |-> <<>>, Palette |-> <<>>]

\* a *VoxFile is the empty sequence when nil, else the record it points to
NoResult == [file |-> <<>>, err |-> NIL]

HistInit ==
  [calls |-> 0, sawRGBA |-> FALSE,
   rgba |-> [set |-> FALSE, at |-> 0],
   xyzi |-> [n |-> 0, at |-> 0],
   sizes |-> {}, extentsFrom |-> {},
   skip |-> [set |-> FALSE, at |-> 0, size |-> ToU32(0), end |-> 0],
   ret |-> [set |-> FALSE, value |-> ToU32(0), size |-> ToU32(0), childSum |-> ToU32(0)],
   wrapped |-> FALSE, starved |-> FALSE, need |-> 0]

Top == stack[Len(stack)]

SetTop(f) == [stack EXCEPT ![Len(stack)] = f]

(***************************************************************************)
(* Initial states: a file of the catalogue, not yet decoded.               *)
(***************************************************************************)
Init ==
  /\ \/ \E t \in Trees, n \in 0..MaxTrail :
           /\ stream = GoodHeader \o Serialize(t) \o Trail(n)
           /\ wfLen = IF WellFormed(t) THEN 8 + TreeLen(t) ELSE 0
     \/ \E bad \in BadHeaders, probe \in HeaderProbes :
           /\ stream = bad \o Serialize(probe)
           /\ wfLen = 8 + TreeLen(probe)
  /\ intBits = 0
  /\ cut = 0
  /\ call = 0
  /\ pc = "idle"
  /\ pos = 0
  /\ stack = <<>>
  /\ voxelFile = NewVoxFile
  /\ err = NIL
  /\ result = NoResult
  /\ hist = HistInit
  /\ first = [ok |-> FALSE, need |-> 0]

(***************************************************************************)
(* DecodeFile / Decode.                                                    *)
(***************************************************************************)
\* the file is decoded once in full and then once more cut short
DecodeStart ==
  /\ \/ call = 0 /\ pc = "idle" /\ cut' = Len(stream) /\ first' = first
     \/ /\ call = 1 /\ pc = "done"
        /\ \E k \in 1..MaxCut : k <= Len(stream) /\ cut' = Len(stream) - k
        /\ first' = [ok |-> result.err = NIL, need |-> hist.need]
  /\ call' = call + 1
  /\ pc' = "magic"
  /\ pos' = 0
  /\ stack' = <<>>
  /\ voxelFile' = NewVoxFile
  /\ err' = NIL
  /\ result' = NoResult
  /\ hist' = HistInit
  /\ UNCHANGED <<stream, intBits, wfLen>>

\* return nil, fmt.Errorf(...) before any chunk is read
DecodeFail(p, e) ==
  /\ result' = [file |-> <<>>, err |-> e]
  /\ err' = e
  /\ pc' = "done"
  /\ pos' = p
  /\ UNCHANGED <<stack, voxelFile, hist>>

ReadMagic ==
  /\ pc = "magic"
  /\ LET rd == Read(pos, 4)
     IN  IF ~rd.ok \/ rd.c # 4 \/ rd.data # MagicVOX
         THEN DecodeFail(rd.pos, "magic")
         ELSE /\ pos' = rd.pos
              /\ pc' = "version"
              /\ hist' = [hist EXCEPT !.need = Max(@, rd.pos)]
              /\ UNCHANGED <<stack, voxelFile, err, result>>
  /\ UNCHANGED <<stream, cut, intBits, call, first, wfLen>>

ReadVersion ==
  /\ pc = "version"
  /\ LET rd == ReadFull(pos, 4)
     IN  IF ~rd.ok \/ LittleEndian32(rd.data) # ToU32(CurrentVersion)
         THEN DecodeFail(rd.pos, "version")
         ELSE /\ pos' = rd.pos
              /\ voxelFile' = [voxelFile EXCEPT !.Version = LittleEndian32(rd.data)]
              /\ pc' = "readChunk"
              /\ hist' = [hist EXCEPT !.need = Max(@, rd.pos)]
              /\ UNCHANGED <<stack, err, result>>
  /\ UNCHANGED <<stream, cut, intBits, call, first, wfLen>>

\* voxelFile.Palette = instancePalette(defaultPalette); return voxelFile, err
DecodeReturn ==
  /\ pc = "return"
  /\ voxelFile' = [voxelFile EXCEPT !.Palette = instancePalette(defaultPalette)]
  /\ result' = [file |-> <<voxelFile'>>, err |-> err]
  /\ pc' = "done"
  /\ UNCHANGED <<stream, cut, intBits, call, pos, stack, err, hist, first, wfLen>>

(***************************************************************************)
(* readChunk.                                                              *)
(***************************************************************************)
\* return 0, err: every caller up the recursion returns it in turn, to Decode
ChunkFail(p, h) ==
  /\ err' = "chunk"
  /\ stack' = <<>>
  /\ pc' = "return"
  /\ pos' = p
  /\ hist' = h
  /\ UNCHANGED <<voxelFile, result>>

\* the handler of the payload of a chunk
Dispatch(chunkIDStr, chunkSize) ==
  IF IsZero32(chunkSize) THEN "children"
  ELSE IF chunkIDStr = IdSIZE THEN "SIZE"
  ELSE IF chunkIDStr = IdXYZI THEN "XYZI"
  ELSE IF chunkIDStr = IdRGBA THEN "RGBA"
  ELSE "skip"

\* chunk ID, chunk size, children size
ReadChunkHeader ==
  /\ pc = "readChunk"
  /\ LET id == Read(pos, 4)
         chunkIDStr == id.data \o [k \in 1..(4 - id.c) |-> 0]
         sz == ReadFull(id.pos, 4)
         ch == ReadFull(sz.pos, 4)
         chunkSize == LittleEndian32(sz.data)
         chunkChildrenSize == LittleEndian32(ch.data)
         h == [hist EXCEPT !.calls = @ + 1]
         hf == [h EXCEPT !.starved = @ \/ stack # <<>>]
     IN  IF ~id.ok THEN ChunkFail(id.pos, hf)
         ELSE IF ~sz.ok THEN ChunkFail(sz.pos, hf)
         ELSE IF ~ch.ok THEN ChunkFail(ch.pos, hf)
         ELSE /\ stack' = Append(stack, [chunkIDStr |-> chunkIDStr, chunkSize |-> chunkSize,
                                         remainingBytes |-> chunkChildrenSize, totalRead |-> 0,
                                         payloadAt |-> ch.pos, childSum |-> ToU32(0)])
              /\ pos' = ch.pos
              /\ pc' = Dispatch(chunkIDStr, chunkSize)
              /\ hist' = [h EXCEPT !.need = Max(@, ch.pos),
                                   !.sawRGBA = @ \/ chunkIDStr = IdRGBA,
                                   !.sizes = IF chunkIDStr = IdSIZE THEN @ \cup {chunkSize} ELSE @]
              /\ UNCHANGED <<voxelFile, err, result>>
  /\ UNCHANGED <<stream, cut, intBits, call, first, wfLen>>

ReadSIZE ==
  /\ pc = "SIZE"
  /\ LET sizeX == ReadFull(pos, 4)
         sizeY == ReadFull(sizeX.pos, 4)
         sizeZ == ReadFull(sizeY.pos, 4)
     IN  IF ~SizeCheck(Top.chunkSize) THEN ChunkFail(pos, hist)
         ELSE IF ~sizeX.ok THEN ChunkFail(sizeX.pos, hist)
         ELSE IF ~sizeY.ok THEN ChunkFail(sizeY.pos, hist)
         ELSE IF ~sizeZ.ok THEN ChunkFail(sizeZ.pos, hist)
         ELSE /\ voxelFile' = [voxelFile EXCEPT !.SizeX = LittleEndian32(sizeX.data),
                                                !.SizeY = LittleEndian32(sizeY.data),
                                                !.SizeZ = LittleEndian32(sizeZ.data)]
              /\ pos' = sizeZ.pos
              /\ pc' = "children"
              /\ hist' = [hist EXCEPT !.need = Max(@, sizeZ.pos),
                                      !.extentsFrom = @ \cup {Top.chunkSize}]
              /\ UNCHANGED <<stack, err, result>>
  /\ UNCHANGED <<stream, cut, intBits, call, first, wfLen>>

\* the voxel count, then voxelCount records of four single bytes; the loop fails at
\* the first byte the stream does not have
ReadXYZI ==
  /\ pc = "XYZI"
  /\ LET cnt == ReadFull(pos, 4)
         voxelCount == LittleEndian32(cnt.data)
         have == (cut - cnt.pos) \div 4
         n == voxelCount[1] * 65536 + voxelCount[2]
     IN  IF ~cnt.ok THEN ChunkFail(cnt.pos, hist)
         ELSE IF Lt32(ToU32(have), voxelCount) THEN ChunkFail(cut, hist)
         ELSE /\ voxelFile' = [voxelFile EXCEPT !.Voxels =
                   [i \in 1..n |-> MakeVoxel(SubSeq(stream, cnt.pos + 4 * i - 3, cnt.pos + 4 * i))]]
              /\ pos' = cnt.pos + 4 * n
              /\ pc' = "children"
              /\ hist' = [hist EXCEPT !.need = Max(@, cnt.pos + 4 * n),
                                      !.xyzi = [n |-> @.n + 1, at |-> Top.payloadAt]]
              /\ UNCHANGED <<stack, err, result>>
  /\ UNCHANGED <<stream, cut, intBits, call, first, wfLen>>

\* paletteSize records of four single bytes, whatever chunkSize says
ReadRGBA ==
  /\ pc = "RGBA"
  /\ IF cut - pos < 4 * paletteSize THEN ChunkFail(cut, hist)
     ELSE LET customPalette ==
                [i \in 1..paletteSize |-> MakeColor(SubSeq(stream, pos + 4 * i - 3, pos + 4 * i))]
          IN  /\ voxelFile' = [voxelFile EXCEPT !.Palette = customPalette]
              /\ pos' = pos + 4 * paletteSize
              /\ pc' = "children"
              /\ hist' = [hist EXCEPT !.need = Max(@, pos + 4 * paletteSize),
                                      !.rgba = [set |-> TRUE, at |-> Top.payloadAt]]
              /\ UNCHANGED <<stack, err, result>>
  /\ UNCHANGED <<stream, cut, intBits, call, first, wfLen>>

\* one turn of the loop that ditches the payload of any other chunk
SkipRead ==
  /\ pc = "skip"
  /\ \E bits \in {32, 64} :
        Build(bits, Top.chunkSize) /\ IntLess(bits, Top.totalRead, Top.chunkSize)
  /\ LET rd == Read(pos, 4)
         left == Sub32(Top.chunkSize, ToU32(Top.totalRead))
         needed == IF left[1] > 0 THEN rd.c ELSE Min(rd.c, left[2])
     IN  IF ~rd.ok THEN ChunkFail(rd.pos, hist)
         ELSE /\ stack' = SetTop([Top EXCEPT !.totalRead = @ + rd.c])
              /\ pos' = rd.pos
              /\ pc' = "skip"
              /\ hist' = [hist EXCEPT !.need = Max(@, pos + needed)]
              /\ UNCHANGED <<voxelFile, err, result>>
  /\ UNCHANGED <<stream, cut, call, first, wfLen>>

SkipDone ==
  /\ pc = "skip"
  /\ \E bits \in {32, 64} :
        Build(bits, Top.chunkSize) /\ ~IntLess(bits, Top.totalRead, Top.chunkSize)
  /\ pc' = "children"
  /\ hist' = [hist EXCEPT !.skip = [set |-> TRUE, at |-> Top.payloadAt,
                                    size |-> Top.chunkSize, end |-> pos]]
  /\ UNCHANGED <<stream, cut, call, pos, stack, voxelFile, err, result, first, wfLen>>

\* for remainingBytes > 0 { childReadSize, err := readChunk(r, voxFile)
ChildCall ==
  /\ pc = "children"
  /\ ~IsZero32(Top.remainingBytes)
  /\ pc' = "readChunk"
  /\ UNCHANGED <<stream, cut, intBits, call, pos, stack, voxelFile, err, result, hist, first, wfLen>>

\* return chunkSize + 12, nil; in the caller remainingBytes = remainingBytes - childReadSize
ChunkReturn ==
  /\ pc = "children"
  /\ IsZero32(Top.remainingBytes)
  /\ LET bytesRead == ReturnValue(Top.chunkSize)
         callers == SubSeq(stack, 1, Len(stack) - 1)
         parent == callers[Len(callers)]
         h == [hist EXCEPT !.ret = [set |-> TRUE, value |-> bytesRead,
                                    size |-> Top.chunkSize, childSum |-> Top.childSum]]
     IN  IF callers = <<>>
         THEN /\ stack' = <<>>
              /\ pc' = "return"
              /\ hist' = h
         ELSE /\ stack' = [callers EXCEPT ![Len(callers)] =
                             [parent EXCEPT !.remainingBytes = Remaining(@, bytesRead),
                                            !.childSum = Add32(@, bytesRead)]]
              /\ pc' = "children"
              /\ hist' = [h EXCEPT !.wrapped = @ \/ Lt32(parent.remainingBytes, bytesRead)]
  /\ UNCHANGED <<stream, cut, intBits, call, pos, voxelFile, err, result, first, wfLen>>

Next ==
  \/ DecodeStart
  \/ ReadMagic
  \/ ReadVersion
  \/ ReadChunkHeader
  \/ ReadSIZE
  \/ ReadXYZI
  \/ ReadRGBA
  \/ SkipRead
  \/ SkipDone
  \/ ChildCall
  \/ ChunkReturn
  \/ DecodeReturn

Spec == Init /\ [][Next]_vars

\* the calls are ordinary sequential code: a step that can be taken is taken
LiveSpec == Spec /\ WF_vars(Next)

(***************************************************************************)
(* Properties.                                                             *)
(***************************************************************************)
Returned == pc = "done"

Succeeded == pc = "done" /\ result.err = NIL

Failed == pc = "done" /\ result.err # NIL

\* the bytes the call can read are "VOX ", then 150 in little-endian order
HeaderValid == cut >= 8 /\ SubSeq(stream, 1, 8) = <<86, 79, 88, 32, 150, 0, 0, 0>>

\* the bytes after the header are exactly a well-formed chunk tree
InputWellFormed == call >= 1 /\ wfLen > 0 /\ cut = wfLen

\* the i-th four-byte record after offset at, as the four bytes in order
Record(at, i) == SubSeq(stream, at + 4 * i - 3, at + 4 * i)

\* C1: when Decode succeeds on an input in which an RGBA chunk with a payload was
\* read, the returned Palette is the 256 colours of that chunk in file order
\* (entry i from its i-th record R, G, B, A) and is not the default palette.
C1_CustomPaletteReturned ==
  (Succeeded /\ hist.rgba.set) =>
     LET palette == result.file[1].Palette
     IN  /\ Len(palette) = 256
         /\ \A i \in 1..256 :
               LET b == Record(hist.rgba.at, i)
               IN  palette[i] = [R |-> b[1], G |-> b[2], B |-> b[3], A |-> b[4]]
         /\ palette # instancePalette(defaultPalette)

\* C2: when Decode returns an error, the *VoxFile it returns is nil.
C2_NoResultOnError == Failed => result.file = <<>>

\* C3: on a well-formed chunk tree every readChunk returns 12 + its declared payload
\* size + the sum of what its direct children returned, no children budget wraps
\* below zero, and Decode succeeds.
C3_ByteAccounting ==
  (InputWellFormed /\ HeaderValid) =>
     /\ hist.ret.set =>
           hist.ret.value = Add32(Add32(ToU32(12), hist.ret.size), hist.ret.childSum)
     /\ ~hist.wrapped
     /\ Returned => result.err = NIL

\* C4: on an input whose chunk area is a well-formed chunk tree, Decode succeeds
\* exactly when the header is "VOX " and version 150, and with any other header it
\* fails without calling readChunk or reading past the header.
C4_HeaderDecides ==
  (Returned /\ InputWellFormed) =>
     /\ result.err = NIL <=> HeaderValid
     /\ ~HeaderValid => (hist.calls = 0 /\ pos <= 8)

\* C5 as stated: an input in which a SIZE chunk declares a payload size other than
\* 12 (0 included) fails, and the extents are never set from such a chunk.
C5_SizeNot12Fails ==
  /\ (Returned /\ \E s \in hist.sizes : s # ToU32(12)) => result.err # NIL
  /\ hist.extentsFrom \subseteq {ToU32(12)}

\* C5 as amended: an input in which a SIZE chunk declares a payload size other than
\* 0 and 12 fails, the extents are never set from a chunk of a size other than 12,
\* and a SIZE chunk of payload size 0 does not fail the decode by itself.
C5_NonZeroSizeNot12Fails ==
  /\ (Returned /\ \E s \in hist.sizes : s # ToU32(12) /\ s # ToU32(0)) => result.err # NIL
  /\ hist.extentsFrom \subseteq {ToU32(12)}
  /\ (Succeeded /\ hist.sizes = {ToU32(0)}) =>
        <<result.file[1].SizeX, result.file[1].SizeY, result.file[1].SizeZ>>
           = <<ToU32(0), ToU32(0), ToU32(0)>>

C5_Witness == Failed /\ ToU32(16) \in hist.sizes /\ hist.calls >= 2

\* C6: when Decode succeeds and the last XYZI chunk read with a payload declares N
\* voxels, Voxels has exactly N elements, element i made of the i-th four-byte
\* record after the count as (X, Y, Z, Index); earlier XYZI chunks leave nothing.
C6_VoxelsOfLastXYZI ==
  (Succeeded /\ hist.xyzi.n > 0) =>
     LET voxels == result.file[1].Voxels
         at == hist.xyzi.at
     IN  /\ ToU32(Len(voxels)) = <<stream[at + 3] + 256 * stream[at + 4],
                                   stream[at + 1] + 256 * stream[at + 2]>>
         /\ \A i \in 1..Len(voxels) :
               LET b == Record(at + 4, i)
               IN  voxels[i] = [X |-> b[1], Y |-> b[2], Z |-> b[3], Index |-> b[4]]

C6_Witness ==
  Succeeded /\ hist.xyzi.n >= 2 /\ Len(result.file[1].Voxels) = 1

\* C7: when Decode succeeds and no RGBA chunk was read, Palette has 256 entries,
\* entry i unpacked from defaultPalette[i] with R = bits 0-7, G = bits 8-15,
\* B = bits 16-23, A = bits 24-31, and entries 0, 1, 2 are {0,0,0,0},
\* {255,255,255,255}, {255,204,255,255}.
C7_DefaultPalette ==
  (Succeeded /\ ~hist.sawRGBA) =>
     LET palette == result.file[1].Palette
     IN  /\ Len(palette) = 256
         /\ \A i \in 1..256 :
               palette[i] = [R |-> defaultPalette[i][2] % 256,
                             G |-> defaultPalette[i][2] \div 256,
                             B |-> defaultPalette[i][1] % 256,
                             A |-> defaultPalette[i][1] \div 256]
         /\ palette[1] = [R |-> 0, G |-> 0, B |-> 0, A |-> 0]
         /\ palette[2] = [R |-> 255, G |-> 255, B |-> 255, A |-> 255]
         /\ palette[3] = [R |-> 255, G |-> 204, B |-> 255, A |-> 255]

\* C8 as stated: when Decode succeeds on an input, it fails on every strict prefix
\* of that input.
C8_EveryPrefixFails ==
  (call = 2 /\ Returned /\ first.ok) => result.err # NIL

\* C8 as amended: when Decode succeeds on an input, it fails on every prefix that
\* ends before the last byte a read of that decode required (first.need: the end of
\* the last magic, version, chunk header or recognised payload read, or of the
\* declared payload of another chunk).
C8_NeededPrefixFails ==
  (call = 2 /\ Returned /\ first.ok /\ cut < first.need) => result.err # NIL

C8_Witness ==
  call = 2 /\ Failed /\ first.ok /\ cut < first.need /\ hist.calls >= 2 /\ pos = cut

\* C9: for a chunk of an unrecognised identifier and payload size N > 0, readChunk
\* has consumed exactly N payload bytes when it goes on to the children.
C9_SkipsExactly ==
  (hist.skip.set /\ hist.skip.size[1] = 0) =>
     hist.skip.end = hist.skip.at + hist.skip.size[2]

====
